---- MODULE Spec2Model ----
(***************************************************************************)
(* Model of the xbee_s2c driver: the API frame packer / unpacker, the      *)
(* frame content codec (src/src/api_frame.rs) and the SPI duplex queue     *)
(* transport with its Sender / Receiver views (src/src/lib.rs).            *)
(*                                                                         *)
(* Bytes are integers 0..255.  A u64 address is kept as its eight bytes,   *)
(* most significant first, because TLC's integers are 32 bit.              *)
(* An Option<T> is a sequence of length 0 (None) or 1 (Some).              *)
(* A Rust panic (unwrap on None / Err, slice index out of range) is the    *)
(* result [tag |-> "abort"] of an operator and the state pc = "aborted"    *)
(* of the transport.                                                       *)
(***************************************************************************)
EXTENDS Integers, Sequences, FiniteSets, TLC

(* ------------------------------------------------------------------ *)
(* Program constants                                                   *)
(* ------------------------------------------------------------------ *)
START == 126
FILLER == 255
DISABLE_ACK == 1
TX_OPTIONS_ALL == 5
RX_OPTIONS_ALL == 6
CHANNEL_ALL == 8191
DIGITAL_ALL == 511
A0 == 512
A1 == 1024
A2 == 2048
A3 == 4096
U16_MAX == 65535

(* ------------------------------------------------------------------ *)
(* Bounds of the model                                                 *)
(* ------------------------------------------------------------------ *)
\* Capacity of tx_queue and of rx_queue.  The program's arrays hold 512
\* bytes each (lib.rs:101-102); the model keeps the code and scales the size.
TX_CAP == 3
RX_CAP == 3
\* Most bytes ever accepted into tx_queue in one behaviour (bounds the logs).
MaxAppended == 3
\* Most consecutive would-block answers of one link exchange.
MaxSpin == 1
\* Longest payload, trailing remainder and raw buffer given to the framing.
MaxPayload == 3
MaxRem == 2
MaxBuf == 6
\* Longest tail of sample bytes after the channel indicator of an IO frame.
MaxTail == 10

(* ------------------------------------------------------------------ *)
(* Small helpers                                                       *)
(* ------------------------------------------------------------------ *)
Min(a, b) == IF a < b THEN a ELSE b

Take(s, n) == SubSeq(s, 1, Min(n, Len(s)))

Drop(s, n) == SubSeq(s, n + 1, Len(s))

SeqsUpTo(S, n) == UNION {[1..k -> S] : k \in 0..n}

wrapping_add(a, b) == (a + b) % 256

RECURSIVE Pow2(_)
Pow2(k) == IF k = 0 THEN 1 ELSE 2 * Pow2(k - 1)

\* bitflags contains(): every bit of mask is set in bits.
RECURSIVE contains(_, _)
contains(bits, mask) ==
    IF mask = 0 THEN TRUE
    ELSE /\ (mask % 2 = 1 => bits % 2 = 1)
         /\ contains(bits \div 2, mask \div 2)

\* bitflags from_bits_truncate(): bits & all.
RECURSIVE from_bits_truncate(_, _)
from_bits_truncate(bits, all) ==
    IF bits = 0 \/ all = 0 THEN 0
    ELSE (IF bits % 2 = 1 /\ all % 2 = 1 THEN 1 ELSE 0)
         + 2 * from_bits_truncate(bits \div 2, all \div 2)

(* ------------------------------------------------------------------ *)
(* Outbound data encoder: TxRequestIter                                *)
(* ------------------------------------------------------------------ *)
\* An iterator over a byte slice (data.iter().map(|v| *v)).
SliceIter(bytes) == [kind |-> "slice", data |-> bytes]

SliceIter_len(it) == Len(it.data)

SliceIter_next(it) ==
    IF it.data = <<>> THEN [it |-> it, item |-> <<>>, abort |-> FALSE]
    ELSE [it |-> [it EXCEPT !.data = Tail(@)], item |-> <<Head(it.data)>>,
          abort |-> FALSE]

Short(v) == [width |-> "Short", value |-> v]
Long(bytes) == [width |-> "Long", bytes |-> bytes]

TxRequestIter_new(frame_id, addr, options, data) ==
    [kind |-> "tx_request",
     state |-> "FrameType",
     frame_id |-> frame_id,
     addr |-> IF addr.width = "Long" THEN addr.bytes
              ELSE <<0, 0, 0, 0, 0, 0, addr.value \div 256, addr.value % 256>>,
     addr_shift |-> IF addr.width = "Long" THEN 56 ELSE 8,
     options |-> options,
     data |-> data]

\* Mutant: the address is emitted least significant byte first.
AddrByte_low_first(addr, shift) == addr[Len(addr) - 7 + (shift \div 8)]

\* (self.addr >> self.addr_shift) as u8
AddrByte(addr, shift) == addr[8 - (shift \div 8)]

\* Mutant: the two frame type codes are exchanged.
TxRequestIter_next_type_swapped(it) ==
    CASE it.state = "FrameType" ->
           IF it.addr_shift = 56
             THEN [it |-> [it EXCEPT !.state = "FrameId"], item |-> <<1>>, abort |-> FALSE]
           ELSE IF it.addr_shift = 8
             THEN [it |-> [it EXCEPT !.state = "FrameId"], item |-> <<0>>, abort |-> FALSE]
           ELSE [it |-> it, item |-> <<>>, abort |-> TRUE]
      [] it.state = "FrameId" ->
           [it |-> [it EXCEPT !.state = "Addr"], item |-> <<it.frame_id>>, abort |-> FALSE]
      [] it.state = "Addr" ->
           [it |-> IF it.addr_shift = 0 THEN [it EXCEPT !.state = "Options"]
                   ELSE [it EXCEPT !.addr_shift = @ - 8],
            item |-> <<AddrByte(it.addr, it.addr_shift)>>, abort |-> FALSE]
      [] it.state = "Options" ->
           [it |-> [it EXCEPT !.state = "Data"], item |-> <<it.options>>, abort |-> FALSE]
      [] OTHER ->
           LET n == SliceIter_next(it.data) IN
           [it |-> [it EXCEPT !.data = n.it], item |-> n.item, abort |-> FALSE]

TxRequestIter_next(it) ==
    CASE it.state = "FrameType" ->
           IF it.addr_shift = 56
             THEN [it |-> [it EXCEPT !.state = "FrameId"], item |-> <<0>>, abort |-> FALSE]
           ELSE IF it.addr_shift = 8
             THEN [it |-> [it EXCEPT !.state = "FrameId"], item |-> <<1>>, abort |-> FALSE]
           ELSE [it |-> it, item |-> <<>>, abort |-> TRUE]
      [] it.state = "FrameId" ->
           [it |-> [it EXCEPT !.state = "Addr"], item |-> <<it.frame_id>>, abort |-> FALSE]
      [] it.state = "Addr" ->
           [it |-> IF it.addr_shift = 0 THEN [it EXCEPT !.state = "Options"]
                   ELSE [it EXCEPT !.addr_shift = @ - 8],
            item |-> <<AddrByte(it.addr, it.addr_shift)>>, abort |-> FALSE]
      [] it.state = "Options" ->
           [it |-> [it EXCEPT !.state = "Data"], item |-> <<it.options>>, abort |-> FALSE]
      [] OTHER ->
           LET n == SliceIter_next(it.data) IN
           [it |-> [it EXCEPT !.data = n.it], item |-> n.item, abort |-> FALSE]

\* Mutant: in state Options the options byte still to come is not counted.
TxRequestIter_len_no_options(it) ==
    CASE it.state = "FrameType" -> 2 + ((it.addr_shift \div 8) + 1) + 1 + SliceIter_len(it.data)
      [] it.state = "FrameId" -> 1 + ((it.addr_shift \div 8) + 1) + 1 + SliceIter_len(it.data)
      [] it.state = "Addr" -> ((it.addr_shift \div 8) + 1) + 1 + SliceIter_len(it.data)
      [] it.state = "Options" -> SliceIter_len(it.data)
      [] OTHER -> SliceIter_len(it.data)

TxRequestIter_len(it) ==
    CASE it.state = "FrameType" -> 2 + ((it.addr_shift \div 8) + 1) + 1 + SliceIter_len(it.data)
      [] it.state = "FrameId" -> 1 + ((it.addr_shift \div 8) + 1) + 1 + SliceIter_len(it.data)
      [] it.state = "Addr" -> ((it.addr_shift \div 8) + 1) + 1 + SliceIter_len(it.data)
      [] it.state = "Options" -> 1 + SliceIter_len(it.data)
      [] OTHER -> SliceIter_len(it.data)

\* size_hint(): the pair (size, Some(size)).
TxRequestIter_size_hint(it) ==
    LET size ==
          CASE it.state = "FrameType" ->
                 2 + ((it.addr_shift \div 8) + 1) + 1 + SliceIter_len(it.data)
            [] it.state = "FrameId" ->
                 1 + ((it.addr_shift \div 8) + 1) + 1 + SliceIter_len(it.data)
            [] it.state = "Addr" -> ((it.addr_shift \div 8) + 1) + 1 + SliceIter_len(it.data)
            [] it.state = "Options" -> 1 + SliceIter_len(it.data)
            [] OTHER -> SliceIter_len(it.data)
    IN <<size, <<size>>>>

\* ExactSizeIterator::len and Iterator::next of the iterator a packer holds.
IterLen(it) == IF it.kind = "slice" THEN SliceIter_len(it) ELSE TxRequestIter_len(it)

IterNext(it) == IF it.kind = "slice" THEN SliceIter_next(it) ELSE TxRequestIter_next(it)

(* ------------------------------------------------------------------ *)
(* Frame packer                                                        *)
(* ------------------------------------------------------------------ *)
\* Mutant: the upper length test is >= instead of >.
FramePacker_new_ge(data) ==
    IF IterLen(data) = 0 THEN [tag |-> "Err", err |-> "TooShort"]
    ELSE IF IterLen(data) >= U16_MAX THEN [tag |-> "Err", err |-> "TooLong"]
    ELSE [tag |-> "Ok", state |-> "Start", data |-> data, checksum |-> 0]

FramePacker_new(data) ==
    IF IterLen(data) = 0 THEN [tag |-> "Err", err |-> "TooShort"]
    ELSE IF IterLen(data) > U16_MAX THEN [tag |-> "Err", err |-> "TooLong"]
    ELSE [tag |-> "Ok", state |-> "Start", data |-> data, checksum |-> 0]

\* Mutant: the final byte is the running sum itself, not 0xFF minus it.
FramePacker_next_raw_sum(fp) ==
    CASE fp.state = "Start" ->
           [fp |-> [fp EXCEPT !.state = "LenH"], item |-> <<START>>]
      [] fp.state = "LenH" ->
           [fp |-> [fp EXCEPT !.state = "LenL"],
            item |-> <<(IterLen(fp.data) \div 256) % 256>>]
      [] fp.state = "LenL" ->
           [fp |-> [fp EXCEPT !.state = "Data"], item |-> <<IterLen(fp.data) % 256>>]
      [] fp.state = "Data" ->
           LET n == IterNext(fp.data) IN
           IF n.item # <<>>
             THEN [fp |-> [fp EXCEPT !.data = n.it,
                                     !.checksum = wrapping_add(@, n.item[1])],
                   item |-> n.item]
             ELSE [fp |-> [fp EXCEPT !.state = "Done", !.data = n.it],
                   item |-> <<fp.checksum>>]
      [] OTHER -> [fp |-> fp, item |-> <<>>]

\* Mutant: the two length bytes are emitted low byte first.
FramePacker_next_len_swapped(fp) ==
    CASE fp.state = "Start" ->
           [fp |-> [fp EXCEPT !.state = "LenH"], item |-> <<START>>]
      [] fp.state = "LenH" ->
           [fp |-> [fp EXCEPT !.state = "LenL"], item |-> <<IterLen(fp.data) % 256>>]
      [] fp.state = "LenL" ->
           [fp |-> [fp EXCEPT !.state = "Data"],
            item |-> <<(IterLen(fp.data) \div 256) % 256>>]
      [] fp.state = "Data" ->
           LET n == IterNext(fp.data) IN
           IF n.item # <<>>
             THEN [fp |-> [fp EXCEPT !.data = n.it,
                                     !.checksum = wrapping_add(@, n.item[1])],
                   item |-> n.item]
             ELSE [fp |-> [fp EXCEPT !.state = "Done", !.data = n.it],
                   item |-> <<255 - fp.checksum>>]
      [] OTHER -> [fp |-> fp, item |-> <<>>]

FramePacker_next(fp) ==
    CASE fp.state = "Start" ->
           [fp |-> [fp EXCEPT !.state = "LenH"], item |-> <<START>>]
      [] fp.state = "LenH" ->
           [fp |-> [fp EXCEPT !.state = "LenL"],
            item |-> <<(IterLen(fp.data) \div 256) % 256>>]
      [] fp.state = "LenL" ->
           [fp |-> [fp EXCEPT !.state = "Data"], item |-> <<IterLen(fp.data) % 256>>]
      [] fp.state = "Data" ->
           LET n == IterNext(fp.data) IN
           IF n.item # <<>>
             THEN [fp |-> [fp EXCEPT !.data = n.it,
                                     !.checksum = wrapping_add(@, n.item[1])],
                   item |-> n.item]
             ELSE [fp |-> [fp EXCEPT !.state = "Done", !.data = n.it],
                   item |-> <<255 - fp.checksum>>]
      [] OTHER -> [fp |-> fp, item |-> <<>>]

\* Every byte the packer yields until it returns None (what extend() consumes
\* when nothing limits it).
RECURSIVE CollectFrame(_)
CollectFrame(fp) ==
    LET n == FramePacker_next(fp) IN
    IF n.item = <<>> THEN <<>> ELSE n.item \o CollectFrame(n.fp)

(* ------------------------------------------------------------------ *)
(* Frame unpacker                                                      *)
(* ------------------------------------------------------------------ *)
\* data.iter().fold(0, |acc: u8, &val| acc.wrapping_add(val)).  Wrapping
\* addition is associative, so the additions of the fold are grouped by
\* halves of s[lo..hi]; this keeps the evaluation shallow for long frames.
RECURSIVE WrappingSumRange(_, _, _)
WrappingSumRange(s, lo, hi) ==
    IF lo > hi THEN 0
    ELSE IF lo = hi THEN wrapping_add(0, s[lo])
    ELSE LET mid == (lo + hi) \div 2
         IN wrapping_add(WrappingSumRange(s, lo, mid), WrappingSumRange(s, mid + 1, hi))

WrappingSum(s) == WrappingSumRange(s, 1, Len(s))

Abort == [tag |-> "abort"]

\* Mutant: the checksum test looks at the low seven bits of the sum only.
unpack_frame_low_bits(buf, escaped) ==
    IF buf = <<>> THEN [tag |-> "Err", err |-> "NoStart", val |-> 0]
    ELSE IF ~escaped /\ buf[1] # START THEN [tag |-> "Err", err |-> "NoStart", val |-> 0]
    ELSE IF escaped THEN Abort
    ELSE LET b1 == Tail(buf) IN
         IF Len(b1) < 2 THEN Abort
         ELSE LET len == b1[1] * 256 + b1[2]
                  b2 == Drop(b1, 2)
              IN IF len + 1 > Len(b2)
                   THEN [tag |-> "Err", err |-> "BadLength", val |-> 3 + len + 1]
                   ELSE LET body == Take(b2, len + 1)
                            rem == Drop(b2, len + 1)
                            checksum == body[Len(body)]
                            data == Take(body, Len(body) - 1)
                            check == WrappingSum(data)
                        IN IF wrapping_add(checksum, check) % 128 = 127
                             THEN [tag |-> "Ok", data |-> data, rem |-> rem]
                             ELSE [tag |-> "Err", err |-> "BadChecksum", val |-> check]

\* Mutant: the length test forgets the checksum byte (len > buf.len()), so a
\* frame cut off just before its checksum is not reported as BadLength.
unpack_frame_len_no_checksum(buf, escaped) ==
    IF buf = <<>> THEN [tag |-> "Err", err |-> "NoStart", val |-> 0]
    ELSE IF ~escaped /\ buf[1] # START THEN [tag |-> "Err", err |-> "NoStart", val |-> 0]
    ELSE IF escaped THEN Abort
    ELSE LET b1 == Tail(buf) IN
         IF Len(b1) < 2 THEN Abort
         ELSE LET len == b1[1] * 256 + b1[2]
                  b2 == Drop(b1, 2)
              IN IF len > Len(b2)
                   THEN [tag |-> "Err", err |-> "BadLength", val |-> 3 + len + 1]
                   ELSE IF len + 1 > Len(b2) THEN Abort   \* split_at past the end
                   ELSE LET body == Take(b2, len + 1)
                            rem == Drop(b2, len + 1)
                            checksum == body[Len(body)]
                            data == Take(body, Len(body) - 1)
                            check == WrappingSum(data)
                        IN IF wrapping_add(checksum, check) = 255
                             THEN [tag |-> "Ok", data |-> data, rem |-> rem]
                             ELSE [tag |-> "Err", err |-> "BadChecksum", val |-> check]

unpack_frame(buf, escaped) ==
    IF buf = <<>> THEN [tag |-> "Err", err |-> "NoStart", val |-> 0]
    ELSE IF ~escaped /\ buf[1] # START THEN [tag |-> "Err", err |-> "NoStart", val |-> 0]
    ELSE IF escaped THEN Abort                 \* unimplemented!()
    ELSE LET b1 == Tail(buf) IN                \* &buf[1..]
         IF Len(b1) < 2 THEN Abort             \* split_at(2) past the end
         ELSE LET len == b1[1] * 256 + b1[2]
                  b2 == Drop(b1, 2)
              IN IF len + 1 > Len(b2)
                   THEN [tag |-> "Err", err |-> "BadLength", val |-> 3 + len + 1]
                   ELSE LET body == Take(b2, len + 1)
                            rem == Drop(b2, len + 1)
                            checksum == body[Len(body)]
                            data == Take(body, Len(body) - 1)
                            check == WrappingSum(data)
                        IN IF wrapping_add(checksum, check) = 255
                             THEN [tag |-> "Ok", data |-> data, rem |-> rem]
                             ELSE [tag |-> "Err", err |-> "BadChecksum", val |-> check]

(* ------------------------------------------------------------------ *)
(* Frame content codec: ApiData::parse                                 *)
(* ------------------------------------------------------------------ *)
\* Mutant: the second byte is taken as the high one.
U16At_low_first(d, i) == d[i] + d[i + 1] * 256

\* ((hi as u16) << 8) | (lo as u16) of the two bytes at positions i, i+1.
U16At(d, i) == d[i] * 256 + d[i + 1]

contains_digital(ci) == contains(ci, DIGITAL_ALL)

\* Mutant: a sample that is not selected is given as Some(0).
ReadSample_zero_filled(d, r, present) ==
    IF r.abort THEN r
    ELSE IF ~present THEN [r EXCEPT !.vals = Append(@, <<0>>)]
    ELSE IF r.pos + 1 <= Len(d)
      THEN [pos |-> r.pos + 2, abort |-> FALSE,
            vals |-> Append(r.vals, <<U16At(d, r.pos)>>)]
      ELSE [r EXCEPT !.abort = TRUE]

\* One optional 16-bit sample word: when its condition holds, two
\* iter.next().unwrap() calls, aborting when the payload has run out.
ReadSample(d, r, present) ==
    IF r.abort THEN r
    ELSE IF ~present THEN [r EXCEPT !.vals = Append(@, <<>>)]
    ELSE IF r.pos + 1 <= Len(d)
      THEN [pos |-> r.pos + 2, abort |-> FALSE,
            vals |-> Append(r.vals, <<U16At(d, r.pos)>>)]
      ELSE [r EXCEPT !.abort = TRUE]

\* The conditional part of an IO-sample payload, read from position pos on.
ReadSamples(d, pos, ci) ==
    LET r0 == [pos |-> pos, abort |-> FALSE, vals |-> <<>>]
        r1 == ReadSample(d, r0, contains_digital(ci))
        r2 == ReadSample(d, r1, contains(ci, A0))
        r3 == ReadSample(d, r2, contains(ci, A1))
        r4 == ReadSample(d, r3, contains(ci, A2))
    IN ReadSample(d, r4, contains(ci, A3))

AtCommandStatusLocal(b) ==
    CASE b = 0 -> "Ok" [] b = 1 -> "Error" [] b = 2 -> "InvalidCommand"
      [] b = 3 -> "InvalidParam" [] OTHER -> "Unknown"

AtCommandStatusRemote(b) ==
    CASE b = 0 -> "Ok" [] b = 1 -> "Error" [] b = 2 -> "InvalidCommand"
      [] b = 3 -> "InvalidParam" [] b = 4 -> "NoResponse" [] OTHER -> "Unknown"

TxStatus_from(val) ==
    CASE val = 0 -> "Standard" [] val = 1 -> "NoAck" [] val = 2 -> "CcaFailure"
      [] val = 3 -> "TxPurged" [] val = 33 -> "NetworkAckFailure"
      [] val = 34 -> "NotConnected" [] val = 49 -> "InternalError"
      [] val = 50 -> "ResourceDepletion" [] val = 116 -> "PayloadTooLarge"
      [] OTHER -> "Unknown"

\* Mutant: the arm of InputVoltageTooHigh (0x0D) is missing.
ModemStatus_from_short(val) ==
    CASE val = 0 -> "HardwareReset" [] val = 1 -> "WatchdogReset"
      [] val = 2 -> "AssociatedCoordinator" [] val = 3 -> "DissociatedCoordinator"
      [] val = 6 -> "CoordinatorNewNetwork"
      [] OTHER -> "Unknown"

ModemStatus_from(val) ==
    CASE val = 0 -> "HardwareReset" [] val = 1 -> "WatchdogReset"
      [] val = 2 -> "AssociatedCoordinator" [] val = 3 -> "DissociatedCoordinator"
      [] val = 6 -> "CoordinatorNewNetwork" [] val = 13 -> "InputVoltageTooHigh"
      [] OTHER -> "Unknown"

ParseErr == [tag |-> "Err"]

\* Both IO-sample branches after the source address: src is the decoded
\* address and p the position of the rssi byte.
parse_io(d, kind, src, p) ==
    LET ci == from_bits_truncate(U16At(d, p + 3), CHANNEL_ALL)
        r == ReadSamples(d, p + 5, ci)
    IN IF r.abort THEN Abort
       ELSE [tag |-> "Ok", kind |-> kind,
             source_addr |-> src,
             rssi |-> d[p],
             options |-> from_bits_truncate(d[p + 1], RX_OPTIONS_ALL),
             samples |-> d[p + 2],
             channel_indicator |-> ci,
             digital_samples |-> r.vals[1],
             analog_samples |-> SubSeq(r.vals, 2, 5)]

\* Mutant: a transmit status is accepted with bytes after its status byte
\* (len > 2 instead of len == 3).
parse_tx_status_min(d) ==
    LET len == Len(d) IN
    IF len = 0 THEN Abort                       \* iter.next().unwrap() on None
    ELSE
    CASE d[1] = 0 /\ len > 10 ->
           [tag |-> "Ok", kind |-> "TxRequest64Addr", frame_id |-> d[2],
            dest_addr |-> SubSeq(d, 3, 10),
            options |-> from_bits_truncate(d[11], TX_OPTIONS_ALL),
            data |-> Drop(d, 11)]
      [] d[1] = 1 /\ len > 4 ->
           [tag |-> "Ok", kind |-> "TxRequest16Addr", frame_id |-> d[2],
            dest_addr |-> U16At(d, 3),
            options |-> from_bits_truncate(d[5], TX_OPTIONS_ALL),
            data |-> Drop(d, 5)]
      [] d[1] = 8 /\ len > 3 ->
           [tag |-> "Ok", kind |-> "AtCommand", frame_id |-> d[2],
            at_cmd |-> SubSeq(d, 3, 4), params |-> Drop(d, 4)]
      [] d[1] = 9 /\ len > 3 ->
           [tag |-> "Ok", kind |-> "AtCommandQueueParam", frame_id |-> d[2],
            at_cmd |-> SubSeq(d, 3, 4), params |-> Drop(d, 4)]
      [] d[1] = 23 /\ len > 13 ->
           [tag |-> "Ok", kind |-> "RemoteAtCommand", frame_id |-> d[2],
            dest_addr_64 |-> SubSeq(d, 3, 10), dest_addr_16 |-> U16At(d, 11),
            at_cmd |-> SubSeq(d, 13, 14), params |-> Drop(d, 14)]
      [] d[1] = 128 /\ len > 10 ->
           [tag |-> "Ok", kind |-> "RxPacket64Addr", source_addr |-> SubSeq(d, 2, 9),
            rssi |-> d[10], options |-> from_bits_truncate(d[11], RX_OPTIONS_ALL),
            data |-> Drop(d, 11)]
      [] d[1] = 129 /\ len > 4 ->
           [tag |-> "Ok", kind |-> "RxPacket16Addr", source_addr |-> U16At(d, 2),
            rssi |-> d[4], options |-> from_bits_truncate(d[5], RX_OPTIONS_ALL),
            data |-> Drop(d, 5)]
      [] d[1] = 130 /\ len > 13 -> parse_io(d, "RxPacketIo64Addr", SubSeq(d, 2, 9), 10)
      [] d[1] = 131 /\ len > 7 -> parse_io(d, "RxPacketIo16Addr", U16At(d, 2), 4)
      [] d[1] = 136 /\ len > 4 ->
           [tag |-> "Ok", kind |-> "AtCommandResponse", frame_id |-> d[2],
            at_cmd |-> SubSeq(d, 3, 4), status |-> AtCommandStatusLocal(d[5]),
            data |-> Drop(d, 5)]
      [] d[1] = 137 /\ len > 2 ->
           [tag |-> "Ok", kind |-> "TxStatus", frame_id |-> d[2],
            status |-> TxStatus_from(d[3])]
      [] d[1] = 138 /\ len = 2 ->
           [tag |-> "Ok", kind |-> "ModemStatus", status |-> ModemStatus_from(d[2])]
      [] d[1] = 151 /\ len > 14 ->
           [tag |-> "Ok", kind |-> "RemoteAtCommandResponse", frame_id |-> d[2],
            source_addr_64 |-> SubSeq(d, 3, 10), source_addr_16 |-> U16At(d, 11),
            at_cmd |-> SubSeq(d, 13, 14), status |-> AtCommandStatusRemote(d[15]),
            data |-> Drop(d, 15)]
      [] OTHER -> ParseErr

parse(d) ==
    LET len == Len(d) IN
    IF len = 0 THEN Abort                       \* iter.next().unwrap() on None
    ELSE
    CASE d[1] = 0 /\ len > 10 ->
           [tag |-> "Ok", kind |-> "TxRequest64Addr", frame_id |-> d[2],
            dest_addr |-> SubSeq(d, 3, 10),
            options |-> from_bits_truncate(d[11], TX_OPTIONS_ALL),
            data |-> Drop(d, 11)]
      [] d[1] = 1 /\ len > 4 ->
           [tag |-> "Ok", kind |-> "TxRequest16Addr", frame_id |-> d[2],
            dest_addr |-> U16At(d, 3),
            options |-> from_bits_truncate(d[5], TX_OPTIONS_ALL),
            data |-> Drop(d, 5)]
      [] d[1] = 8 /\ len > 3 ->
           [tag |-> "Ok", kind |-> "AtCommand", frame_id |-> d[2],
            at_cmd |-> SubSeq(d, 3, 4), params |-> Drop(d, 4)]
      [] d[1] = 9 /\ len > 3 ->
           [tag |-> "Ok", kind |-> "AtCommandQueueParam", frame_id |-> d[2],
            at_cmd |-> SubSeq(d, 3, 4), params |-> Drop(d, 4)]
      [] d[1] = 23 /\ len > 13 ->
           [tag |-> "Ok", kind |-> "RemoteAtCommand", frame_id |-> d[2],
            dest_addr_64 |-> SubSeq(d, 3, 10), dest_addr_16 |-> U16At(d, 11),
            at_cmd |-> SubSeq(d, 13, 14), params |-> Drop(d, 14)]
      [] d[1] = 128 /\ len > 10 ->
           [tag |-> "Ok", kind |-> "RxPacket64Addr", source_addr |-> SubSeq(d, 2, 9),
            rssi |-> d[10], options |-> from_bits_truncate(d[11], RX_OPTIONS_ALL),
            data |-> Drop(d, 11)]
      [] d[1] = 129 /\ len > 4 ->
           [tag |-> "Ok", kind |-> "RxPacket16Addr", source_addr |-> U16At(d, 2),
            rssi |-> d[4], options |-> from_bits_truncate(d[5], RX_OPTIONS_ALL),
            data |-> Drop(d, 5)]
      [] d[1] = 130 /\ len > 13 -> parse_io(d, "RxPacketIo64Addr", SubSeq(d, 2, 9), 10)
      [] d[1] = 131 /\ len > 7 -> parse_io(d, "RxPacketIo16Addr", U16At(d, 2), 4)
      [] d[1] = 136 /\ len > 4 ->
           [tag |-> "Ok", kind |-> "AtCommandResponse", frame_id |-> d[2],
            at_cmd |-> SubSeq(d, 3, 4), status |-> AtCommandStatusLocal(d[5]),
            data |-> Drop(d, 5)]
      [] d[1] = 137 /\ len = 3 ->
           [tag |-> "Ok", kind |-> "TxStatus", frame_id |-> d[2],
            status |-> TxStatus_from(d[3])]
      [] d[1] = 138 /\ len = 2 ->
           [tag |-> "Ok", kind |-> "ModemStatus", status |-> ModemStatus_from(d[2])]
      [] d[1] = 151 /\ len > 14 ->
           [tag |-> "Ok", kind |-> "RemoteAtCommandResponse", frame_id |-> d[2],
            source_addr_64 |-> SubSeq(d, 3, 10), source_addr_16 |-> U16At(d, 11),
            at_cmd |-> SubSeq(d, 13, 14), status |-> AtCommandStatusRemote(d[15]),
            data |-> Drop(d, 15)]
      [] OTHER -> ParseErr

(* ------------------------------------------------------------------ *)
(* Receive buffer scanner: XBeeQueue for ArrayVec                      *)
(* ------------------------------------------------------------------ *)
\* self.iter().position(|c| c == &START): index (from 0) of the first START.
RECURSIVE position(_, _)
position(q, i) ==
    IF i > Len(q) THEN <<>>
    ELSE IF q[i] = START THEN <<i - 1>>
    ELSE position(q, i + 1)

remove_exact(q, amount) ==
    IF amount = 0 THEN [tag |-> "Ok", q |-> q]
    ELSE IF amount <= Len(q) THEN [tag |-> "Ok", q |-> Drop(q, amount)]
    ELSE [tag |-> "Err", q |-> q]

\* Mutant: the start marker is drained with the bytes before it.
remove_until_start_past(q) ==
    LET pos == position(q, 1) IN
    IF pos # <<>>
      THEN LET r == remove_exact(q, pos[1] + 1) IN
           IF r.tag = "Ok" THEN [tag |-> "Ok", val |-> pos[1], q |-> r.q]
           ELSE [tag |-> "Err", val |-> 0, q |-> r.q]
      ELSE [tag |-> "Ok", val |-> Len(q), q |-> <<>>]

remove_until_start(q) ==
    LET pos == position(q, 1) IN
    IF pos # <<>>
      THEN LET r == remove_exact(q, pos[1]) IN
           IF r.tag = "Ok" THEN [tag |-> "Ok", val |-> pos[1], q |-> r.q]
           ELSE [tag |-> "Err", val |-> 0, q |-> r.q]
      ELSE [tag |-> "Ok", val |-> Len(q), q |-> <<>>]

(* ------------------------------------------------------------------ *)
(* State                                                               *)
(* ------------------------------------------------------------------ *)
VARIABLES
    tx_queue,      \* XBeeApiSpi.tx_queue, front first
    rx_queue,      \* XBeeApiSpi.rx_queue
    pc,            \* "idle", inside transmit_and_receive ("cond", "send",
                   \* "read"), or "aborted" after a panic
    val_read,      \* local of transmit_and_receive
    attn_val,      \* local of transmit_and_receive: the last attn.is_high()
    tx,            \* local of transmit_and_receive: the byte to send
    tx_is_filler,  \* whether tx came from the else branch (0xFF)
    spins,         \* would-block answers of the exchange in progress
    poll_ret,      \* what the last transmit_and_receive returned
    appended,      \* log: every byte accepted into tx_queue, in order
    written,       \* log: every queued byte the link accepted, in order
    link_failed,   \* log: some exchange returned a link error
    last_op,       \* the last public operation called
    last_ret,      \* its integer return value (the Ok(n) of the scanners)
    decoded,       \* result of the last unpack_and_parse_buffer
    c_op,          \* codec: the operation last applied
    c_payload,     \* codec: the payload given to the packer
    c_rem,         \* codec: the bytes placed after the frame
    c_buf,         \* codec: the packer's output / the buffer given to
                   \* unpack_frame or parse
    c_fp,          \* codec: the FramePacker
    c_res,         \* codec: the result
    c_it,          \* codec: the TxRequestIter being read
    c_len,         \* codec: the length of the iterator given to
                   \* FramePacker::new
    c_args         \* codec: the arguments given to TxRequestIter::new

tvars == <<tx_queue, rx_queue, pc, val_read, attn_val, tx, tx_is_filler, spins,
           poll_ret, appended, written, link_failed, last_op, last_ret, decoded>>
cvars == <<c_op, c_payload, c_rem, c_buf, c_fp, c_res, c_it, c_len, c_args>>
vars == <<tx_queue, rx_queue, pc, val_read, attn_val, tx, tx_is_filler, spins,
          poll_ret, appended, written, link_failed, last_op, last_ret, decoded,
          c_op, c_payload, c_rem, c_buf, c_fp, c_res, c_it, c_len, c_args>>

NoResult == [tag |-> "none"]

\* Bytes the module may answer on the link, and what callers send.
LinkBytes == {0, START}
RawData == {<<255>>, <<START, 1>>, <<1, 2, 3, 4>>}
FrameIds == {1}
Addrs == {Short(258), Long(<<0, 19, 162, 0, 65, 93, 29, 187>>)}
UserData == {<<84>>}

CodecInit ==
    /\ c_op = "none"
    /\ c_payload = <<>>
    /\ c_rem = <<>>
    /\ c_buf = <<>>
    /\ c_fp = NoResult
    /\ c_res = NoResult
    /\ c_it = NoResult
    /\ c_len = 0
    /\ c_args = NoResult

\* XBeeApiSpi::new
TransportInit ==
    /\ tx_queue = <<>>
    /\ rx_queue = <<>>
    /\ pc = "idle"
    /\ val_read = FALSE
    /\ attn_val = TRUE
    /\ tx = 0
    /\ tx_is_filler = FALSE
    /\ spins = 0
    /\ poll_ret = "none"
    /\ appended = <<>>
    /\ written = <<>>
    /\ link_failed = FALSE
    /\ last_op = "new"
    /\ last_ret = 0
    /\ decoded = NoResult

Init == TransportInit /\ CodecInit

(* ------------------------------------------------------------------ *)
(* Sender                                                              *)
(* ------------------------------------------------------------------ *)
\* tx_queue.extend(iter): the deque (arraydeque, saturating by default)
\* takes items while it has room and leaves the rest of the iterator unread;
\* its capacity is taken to be the whole backing array.
Extend(q, bytes) == q \o Take(bytes, TX_CAP - Len(q))

Enqueue(op, bytes) ==
    LET q2 == Extend(tx_queue, bytes)
        acc == SubSeq(q2, Len(tx_queue) + 1, Len(q2))
    IN /\ Len(appended) + Len(acc) <= MaxAppended
       /\ tx_queue' = q2
       /\ appended' = appended \o acc
       /\ last_op' = op
       /\ last_ret' = 0
       /\ decoded' = NoResult
       /\ UNCHANGED <<rx_queue, pc, val_read, attn_val, tx, tx_is_filler, spins,
                      poll_ret, written, link_failed>>

Panic(op) ==
    /\ pc' = "aborted"
    /\ last_op' = op
    /\ UNCHANGED <<tx_queue, rx_queue, val_read, attn_val, tx, tx_is_filler, spins,
                   poll_ret, appended, written, link_failed, last_ret, decoded>>

send_data_raw(data) ==
    /\ pc = "idle"
    /\ Enqueue("send_data_raw", data)
    /\ UNCHANGED cvars

\* send_data and send_data_no_ack differ in the options only.
SendFrame(op, frame_id, addr, options, data) ==
    LET tx_request == TxRequestIter_new(frame_id, addr, options, SliceIter(data))
        frame == FramePacker_new(tx_request)
    IN /\ pc = "idle"
       /\ IF frame.tag = "Ok" THEN Enqueue(op, CollectFrame(frame))
          ELSE Panic(op)                         \* expect("packing error")
       /\ UNCHANGED cvars

send_data(frame_id, addr, data) == SendFrame("send_data", frame_id, addr, 0, data)

send_data_no_ack(frame_id, addr, data) ==
    SendFrame("send_data_no_ack", frame_id, addr, DISABLE_ACK, data)

(* ------------------------------------------------------------------ *)
(* Transport loop: XBeeApiSpi::transmit_and_receive                    *)
(* ------------------------------------------------------------------ *)
\* Entry: let mut val_read = false.
poll_begin ==
    /\ pc = "idle"
    /\ pc' = "cond"
    /\ val_read' = FALSE
    /\ poll_ret' = "running"
    /\ last_op' = "transmit_and_receive"
    /\ last_ret' = 0
    /\ decoded' = NoResult
    /\ UNCHANGED <<tx_queue, rx_queue, attn_val, tx, tx_is_filler, spins, appended,
                   written, link_failed>>
    /\ UNCHANGED cvars

\* Mutant: the loop goes on only while there is a byte to send and the pin
\* is low (&& instead of ||).
poll_cond_and(a) ==
    /\ pc = "cond"
    /\ attn_val' = a
    /\ IF tx_queue # <<>> /\ ~a
         THEN /\ tx' = Head(tx_queue)
              /\ tx_queue' = Tail(tx_queue)
              /\ tx_is_filler' = FALSE
              /\ pc' = "send"
              /\ UNCHANGED poll_ret
         ELSE /\ pc' = "idle"
              /\ poll_ret' = IF val_read THEN "Ok_true" ELSE "Ok_false"
              /\ UNCHANGED <<tx, tx_queue, tx_is_filler>>
    /\ spins' = 0
    /\ UNCHANGED <<rx_queue, val_read, appended, written, link_failed, last_op,
                   last_ret, decoded>>
    /\ UNCHANGED cvars

\* Mutant: the byte is taken from the back of the queue (pop_back).
poll_cond_pop_back(a) ==
    /\ pc = "cond"
    /\ attn_val' = a
    /\ IF tx_queue # <<>> \/ ~a
         THEN /\ IF tx_queue # <<>>
                   THEN /\ tx' = tx_queue[Len(tx_queue)]
                        /\ tx_queue' = Take(tx_queue, Len(tx_queue) - 1)
                        /\ tx_is_filler' = FALSE
                   ELSE /\ tx' = FILLER
                        /\ tx_queue' = tx_queue
                        /\ tx_is_filler' = TRUE
              /\ pc' = "send"
              /\ UNCHANGED poll_ret
         ELSE /\ pc' = "idle"
              /\ poll_ret' = IF val_read THEN "Ok_true" ELSE "Ok_false"
              /\ UNCHANGED <<tx, tx_queue, tx_is_filler>>
    /\ spins' = 0
    /\ UNCHANGED <<rx_queue, val_read, appended, written, link_failed, last_op,
                   last_ret, decoded>>
    /\ UNCHANGED cvars

\* The loop condition with the sampled pin level a, and, when the loop goes
\* on, the choice of the byte to send.
poll_cond(a) ==
    /\ pc = "cond"
    /\ attn_val' = a
    /\ IF tx_queue # <<>> \/ ~a
         THEN /\ IF tx_queue # <<>>
                   THEN /\ tx' = Head(tx_queue)           \* pop_front().unwrap()
                        /\ tx_queue' = Tail(tx_queue)
                        /\ tx_is_filler' = FALSE
                   ELSE /\ tx' = FILLER
                        /\ tx_queue' = tx_queue
                        /\ tx_is_filler' = TRUE
              /\ pc' = "send"
              /\ UNCHANGED poll_ret
         ELSE /\ pc' = "idle"
              /\ poll_ret' = IF val_read THEN "Ok_true" ELSE "Ok_false"
              /\ UNCHANGED <<tx, tx_queue, tx_is_filler>>
    /\ spins' = 0
    /\ UNCHANGED <<rx_queue, val_read, appended, written, link_failed, last_op,
                   last_ret, decoded>>
    /\ UNCHANGED cvars

\* block!(self.serial.send(tx)): would-block, then tried again.
send_would_block ==
    /\ pc = "send"
    /\ spins < MaxSpin
    /\ spins' = spins + 1
    /\ UNCHANGED <<tx_queue, rx_queue, pc, val_read, attn_val, tx, tx_is_filler,
                   poll_ret, appended, written, link_failed, last_op, last_ret,
                   decoded>>
    /\ UNCHANGED cvars

send_ok ==
    /\ pc = "send"
    /\ written' = IF tx_is_filler THEN written ELSE Append(written, tx)
    /\ pc' = "read"
    /\ spins' = 0
    /\ UNCHANGED <<tx_queue, rx_queue, val_read, attn_val, tx, tx_is_filler,
                   poll_ret, appended, link_failed, last_op, last_ret, decoded>>
    /\ UNCHANGED cvars

\* The ? after block!: the link error is returned.
LinkError ==
    /\ pc' = "idle"
    /\ poll_ret' = "Err"
    /\ link_failed' = TRUE
    /\ spins' = 0
    /\ UNCHANGED <<tx_queue, rx_queue, val_read, attn_val, tx, tx_is_filler,
                   appended, written, last_op, last_ret, decoded>>
    /\ UNCHANGED cvars

send_err == pc = "send" /\ LinkError

\* block!(self.serial.read()): would-block, then tried again.
read_would_block ==
    /\ pc = "read"
    /\ spins < MaxSpin
    /\ spins' = spins + 1
    /\ UNCHANGED <<tx_queue, rx_queue, pc, val_read, attn_val, tx, tx_is_filler,
                   poll_ret, appended, written, link_failed, last_op, last_ret,
                   decoded>>
    /\ UNCHANGED cvars

read_err == pc = "read" /\ LinkError

\* Mutant: the result of try_push is ignored and the loop does not break
\* when the buffer is full.
read_ok_no_break(rx) ==
    /\ pc = "read"
    /\ spins' = 0
    /\ IF ~attn_val
         THEN /\ rx_queue' = IF Len(rx_queue) < RX_CAP THEN Append(rx_queue, rx)
                             ELSE rx_queue
              /\ val_read' = TRUE
         ELSE UNCHANGED <<rx_queue, val_read>>
    /\ pc' = "cond"
    /\ UNCHANGED <<tx_queue, attn_val, tx, tx_is_filler, appended, written,
                   link_failed, last_op, last_ret, decoded, poll_ret>>
    /\ UNCHANGED cvars

\* Mutant: the byte is pushed without the capacity check of try_push.
read_ok_unchecked(rx) ==
    /\ pc = "read"
    /\ spins' = 0
    /\ IF ~attn_val
         THEN IF TRUE
                THEN /\ rx_queue' = Append(rx_queue, rx)     \* try_push(rx)
                     /\ val_read' = TRUE
                     /\ IF Len(rx_queue') = RX_CAP
                          THEN /\ pc' = "idle"
                               /\ poll_ret' = "Ok_true"
                          ELSE /\ pc' = "cond"
                               /\ UNCHANGED poll_ret
                ELSE /\ pc' = "aborted"                      \* unwrap() of Err
                     /\ UNCHANGED <<rx_queue, val_read, poll_ret>>
         ELSE /\ pc' = "cond"
              /\ UNCHANGED <<rx_queue, val_read, poll_ret>>
    /\ UNCHANGED <<tx_queue, attn_val, tx, tx_is_filler, appended, written,
                   link_failed, last_op, last_ret, decoded>>
    /\ UNCHANGED cvars

\* Mutant: the byte is kept when the pin was sampled high.
read_ok_when_high(rx) ==
    /\ pc = "read"
    /\ spins' = 0
    /\ IF attn_val
         THEN IF Len(rx_queue) < RX_CAP
                THEN /\ rx_queue' = Append(rx_queue, rx)     \* try_push(rx)
                     /\ val_read' = TRUE
                     /\ IF Len(rx_queue') = RX_CAP           \* is_full(): break
                          THEN /\ pc' = "idle"
                               /\ poll_ret' = "Ok_true"
                          ELSE /\ pc' = "cond"
                               /\ UNCHANGED poll_ret
                ELSE /\ pc' = "aborted"                      \* unwrap() of Err
                     /\ UNCHANGED <<rx_queue, val_read, poll_ret>>
         ELSE /\ pc' = "cond"
              /\ UNCHANGED <<rx_queue, val_read, poll_ret>>
    /\ UNCHANGED <<tx_queue, attn_val, tx, tx_is_filler, appended, written,
                   link_failed, last_op, last_ret, decoded>>
    /\ UNCHANGED cvars

\* Mutant: val_read is set for every byte read, also for one that is dropped.
read_ok_counts_discarded(rx) ==
    /\ pc = "read"
    /\ spins' = 0
    /\ IF ~attn_val
         THEN IF Len(rx_queue) < RX_CAP
                THEN /\ rx_queue' = Append(rx_queue, rx)
                     /\ val_read' = TRUE
                     /\ IF Len(rx_queue') = RX_CAP
                          THEN /\ pc' = "idle"
                               /\ poll_ret' = "Ok_true"
                          ELSE /\ pc' = "cond"
                               /\ UNCHANGED poll_ret
                ELSE /\ pc' = "aborted"
                     /\ UNCHANGED <<rx_queue, val_read, poll_ret>>
         ELSE /\ pc' = "cond"
              /\ val_read' = TRUE
              /\ UNCHANGED <<rx_queue, poll_ret>>
    /\ UNCHANGED <<tx_queue, attn_val, tx, tx_is_filler, appended, written,
                   link_failed, last_op, last_ret, decoded>>
    /\ UNCHANGED cvars

\* The read answered rx: the rest of the loop body.
read_ok(rx) ==
    /\ pc = "read"
    /\ spins' = 0
    /\ IF ~attn_val
         THEN IF Len(rx_queue) < RX_CAP
                THEN /\ rx_queue' = Append(rx_queue, rx)     \* try_push(rx)
                     /\ val_read' = TRUE
                     /\ IF Len(rx_queue') = RX_CAP           \* is_full(): break
                          THEN /\ pc' = "idle"
                               /\ poll_ret' = "Ok_true"
                          ELSE /\ pc' = "cond"
                               /\ UNCHANGED poll_ret
                ELSE /\ pc' = "aborted"                      \* unwrap() of Err
                     /\ UNCHANGED <<rx_queue, val_read, poll_ret>>
         ELSE /\ pc' = "cond"
              /\ UNCHANGED <<rx_queue, val_read, poll_ret>>
    /\ UNCHANGED <<tx_queue, attn_val, tx, tx_is_filler, appended, written,
                   link_failed, last_op, last_ret, decoded>>
    /\ UNCHANGED cvars

(* ------------------------------------------------------------------ *)
(* Receiver                                                            *)
(* ------------------------------------------------------------------ *)
ReceiverUnchanged ==
    UNCHANGED <<tx_queue, val_read, attn_val, tx, tx_is_filler, spins, poll_ret,
                appended, written, link_failed>>

unpack_and_parse(buf) ==
    LET u == unpack_frame(buf, FALSE) IN
    IF u.tag = "Ok"
      THEN LET r == parse(u.data) IN
           IF r.tag = "Err" THEN [tag |-> "Err", err |-> "Parse"] ELSE r
    ELSE IF u.tag = "Err" THEN [tag |-> "Err", err |-> "Unpack", cause |-> u]
    ELSE Abort

unpack_and_parse_buffer ==
    /\ pc = "idle"
    /\ decoded' = unpack_and_parse(rx_queue)
    /\ pc' = IF decoded'.tag = "abort" THEN "aborted" ELSE pc
    /\ last_op' = "unpack_and_parse_buffer"
    /\ last_ret' = 0
    /\ UNCHANGED rx_queue
    /\ ReceiverUnchanged
    /\ UNCHANGED cvars

remove_until_packet ==
    LET r == remove_until_start(rx_queue) IN
    /\ pc = "idle"
    /\ rx_queue' = r.q
    /\ last_ret' = IF r.tag = "Ok" THEN r.val ELSE -1
    /\ last_op' = "remove_until_packet"
    /\ decoded' = NoResult
    /\ UNCHANGED pc
    /\ ReceiverUnchanged
    /\ UNCHANGED cvars

remove_until_next_packet ==
    /\ pc = "idle"
    /\ IF rx_queue # <<>>                                  \* pop_at(0)
         THEN LET r == remove_until_start(Tail(rx_queue)) IN
              /\ rx_queue' = r.q
              /\ last_ret' = IF r.tag = "Ok" THEN r.val + 1 ELSE -1
         ELSE /\ rx_queue' = rx_queue
              /\ last_ret' = 0
    /\ last_op' = "remove_until_next_packet"
    /\ decoded' = NoResult
    /\ UNCHANGED pc
    /\ ReceiverUnchanged
    /\ UNCHANGED cvars

(* ------------------------------------------------------------------ *)
(* The driver: any sequence of calls                                   *)
(* ------------------------------------------------------------------ *)
Next ==
    \/ \E data \in RawData : send_data_raw(data)
    \/ \E f \in FrameIds, a \in Addrs, data \in UserData : send_data(f, a, data)
    \/ \E f \in FrameIds, a \in Addrs, data \in UserData : send_data_no_ack(f, a, data)
    \/ poll_begin
    \/ \E a \in BOOLEAN : poll_cond(a)
    \/ send_would_block
    \/ send_ok
    \/ send_err
    \/ read_would_block
    \/ \E rx \in LinkBytes : read_ok(rx)
    \/ read_err
    \/ unpack_and_parse_buffer
    \/ remove_until_packet
    \/ remove_until_next_packet

Spec == Init /\ [][Next]_vars

(* ------------------------------------------------------------------ *)
(* The transport loop alone, from any queue contents                   *)
(* ------------------------------------------------------------------ *)
\* Any contents the sender and earlier calls can have left in the queues.
TxBytes == {1, 255}

PollInit ==
    /\ tx_queue \in SeqsUpTo(TxBytes, TX_CAP)
    /\ rx_queue \in SeqsUpTo(LinkBytes, RX_CAP)
    /\ pc = "idle"
    /\ val_read = FALSE
    /\ attn_val = TRUE
    /\ tx = 0
    /\ tx_is_filler = FALSE
    /\ spins = 0
    /\ poll_ret = "none"
    /\ appended = tx_queue
    /\ written = <<>>
    /\ link_failed = FALSE
    /\ last_op = "new"
    /\ last_ret = 0
    /\ decoded = NoResult
    /\ CodecInit

PollNext ==
    \/ poll_begin
    \/ \E a \in BOOLEAN : poll_cond(a)
    \/ send_would_block
    \/ send_ok
    \/ send_err
    \/ read_would_block
    \/ \E rx \in LinkBytes : read_ok(rx)
    \/ read_err

\* The processor keeps executing the call; an exchange answers would-block
\* at most MaxSpin times in a row.
PollSpec == PollInit /\ [][PollNext]_vars /\ WF_vars(PollNext)

(* ------------------------------------------------------------------ *)
(* The receiver alone, over a receive buffer that holds frames         *)
(* ------------------------------------------------------------------ *)
\* What the link can have delivered into rx_queue (512 bytes in the
\* program): a frame, possibly after a byte of noise, followed by nothing,
\* by noise, or by the beginning of or a whole further frame.  The payloads
\* are two modem statuses (one with the status byte 0x7E), a transmit
\* status, and one of an unknown type.
RecvPayloads == {<<138, 0>>, <<138, START>>, <<137, 1, 0>>, <<2>>}
RecvFrame(P) == CollectFrame(FramePacker_new(SliceIter(P)))
RecvRests ==
    {<<>>, <<0>>, <<START>>, <<0, START, 0>>, RecvFrame(<<138, 0>>),
     RecvFrame(<<138, START>>)}
RecvBuffers ==
    {noise \o RecvFrame(P) \o rest :
        noise \in {<<>>, <<0>>}, P \in RecvPayloads, rest \in RecvRests}

ReceiverInit ==
    /\ rx_queue \in RecvBuffers
    /\ tx_queue = <<>>
    /\ pc = "idle"
    /\ val_read = FALSE
    /\ attn_val = TRUE
    /\ tx = 0
    /\ tx_is_filler = FALSE
    /\ spins = 0
    /\ poll_ret = "none"
    /\ appended = <<>>
    /\ written = <<>>
    /\ link_failed = FALSE
    /\ last_op = "new"
    /\ last_ret = 0
    /\ decoded = NoResult
    /\ CodecInit

ReceiverNext ==
    \/ unpack_and_parse_buffer
    \/ remove_until_packet
    \/ remove_until_next_packet

ReceiverSpec == ReceiverInit /\ [][ReceiverNext]_vars

(* ------------------------------------------------------------------ *)
(* The framing and the codec as pure functions of their inputs         *)
(* ------------------------------------------------------------------ *)
\* Each behaviour applies one function to one input (c_op = "none" until the
\* input is chosen).
CodecBytes == {0, 1, START, 255}
RemBytes == {0, START}
LongLen == 258
LongPayload == [i \in 1..LongLen |-> i % 256]
\* The content of packing_test: a transmit request for "Testing".
TestPayload ==
    <<0, 1, 0, 19, 162, 0, 65, 93, 29, 187, 0, 84, 101, 115, 116, 105, 110, 103>>
Payloads == SeqsUpTo(CodecBytes, MaxPayload) \cup {LongPayload, TestPayload}
Rems == SeqsUpTo(RemBytes, MaxRem)
Buffers == SeqsUpTo(CodecBytes, MaxBuf)

\* IO-sample payloads: type, source address, rssi, options, sample count,
\* the two indicator bytes and a tail of sample bytes.
IndicatorHi == {0, 1, 2, 3, 4, 10, 16, 30, 31, 224, 255}
IndicatorLo == {0, 1, 128, 255}
TailPatterns == {[i \in 1..MaxTail |-> 16 * i + 1], [i \in 1..MaxTail |-> 255 - i]}
Tails == {Take(t, n) : t \in TailPatterns, n \in 0..MaxTail}
IoPayload(type, hi, lo, tail) ==
    (IF type = 130 THEN <<130, 0, 19, 162, 0, 65, 93, 29, 187>> ELSE <<131, 18, 52>>)
    \o <<40, 2, 1, hi, lo>> \o tail
IoPayloads ==
    {IoPayload(type, hi, lo, tail) :
        type \in {130, 131}, hi \in IndicatorHi, lo \in IndicatorLo, tail \in Tails}

\* Payloads of every frame type of the grammar and of some unknown types, of
\* every length from the type byte alone to past the longest fixed part.
MaxParseLen == 17
FrameTypes == {0, 1, 8, 9, 23, 128, 129, 136, 137, 138, 151}
OtherTypes == {2, START, 139, 255}
FieldPatterns ==
    {[i \in 1..MaxParseLen |-> 10 * i + 3], [i \in 1..MaxParseLen |-> 255 - 7 * i]}
GrammarPayloads ==
    {<<t>> \o Take(f, n - 1) :
        t \in FrameTypes \cup OtherTypes, f \in FieldPatterns, n \in 1..MaxParseLen}

\* The payloads of the three parse tests: AT command NH, AT command DL with
\* a parameter, AT command response BD.
TestParsePayloads ==
    {<<8, 82, 78, 72>>, <<8, 77, 68, 76, 0, 0, 15, 255>>, <<136, 1, 66, 68, 0>>}

\* A modem status and a transmit status with every value of the status byte.
StatusFrameIds == {1, 255}
StatusPayloads ==
    {<<138, st>> : st \in 0..255}
    \cup {<<137, f, st>> : f \in StatusFrameIds, st \in 0..255}

\* A local and a remote AT command response ("BD", no value bytes) with every
\* value of the status byte.
AtLocalPayload(st) == <<136, 1, 66, 68, st>>
AtRemotePayload(st) ==
    <<151, 1, 0, 19, 162, 0, 65, 93, 29, 187, 1, 2, 66, 68, st>>
AtStatusPayloads ==
    {AtLocalPayload(st) : st \in 0..255} \cup {AtRemotePayload(st) : st \in 0..255}

\* FramePacker::new over a payload slice.
pack_new(P) ==
    /\ c_op = "none"
    /\ c_op' = "pack"
    /\ c_payload' = P
    /\ c_rem' = <<>>
    /\ c_buf' = <<>>
    /\ c_fp' = FramePacker_new(SliceIter(P))
    /\ c_res' = NoResult
    /\ UNCHANGED <<c_it, c_len, c_args>>
    /\ UNCHANGED tvars

\* One next() of the packer; the byte it yields goes to the buffer
\* (vec.extend(packed_frame) of packing_test).
pack_next ==
    /\ c_op = "pack"
    /\ c_fp.tag = "Ok"
    /\ LET n == FramePacker_next(c_fp) IN
       /\ c_fp' = n.fp
       /\ c_buf' = c_buf \o n.item
       /\ c_res' = [tag |-> "next", item |-> n.item]
    /\ UNCHANGED <<c_op, c_payload, c_rem>>
    /\ UNCHANGED <<c_it, c_len, c_args>>
    /\ UNCHANGED tvars

\* unpack_frame of the finished frame followed by the bytes R.
unpack_packed(R) ==
    /\ c_op = "pack"
    /\ c_fp.tag = "Ok"
    /\ c_fp.state = "Done"
    /\ c_op' = "pack_unpack"
    /\ c_rem' = R
    /\ c_buf' = c_buf \o R
    /\ c_res' = unpack_frame(c_buf', FALSE)
    /\ UNCHANGED <<c_payload, c_fp>>
    /\ UNCHANGED <<c_it, c_len, c_args>>
    /\ UNCHANGED tvars

unpack_buffer(B) ==
    /\ c_op = "none"
    /\ c_op' = "unpack_frame"
    /\ c_payload' = <<>>
    /\ c_rem' = <<>>
    /\ c_buf' = B
    /\ c_res' = unpack_frame(B, FALSE)
    /\ UNCHANGED c_fp
    /\ UNCHANGED <<c_it, c_len, c_args>>
    /\ UNCHANGED tvars

parse_payload(D) ==
    /\ c_op = "none"
    /\ c_op' = "parse"
    /\ c_payload' = <<>>
    /\ c_rem' = <<>>
    /\ c_buf' = D
    /\ c_res' = parse(D)
    /\ UNCHANGED c_fp
    /\ UNCHANGED <<c_it, c_len, c_args>>
    /\ UNCHANGED tvars

\* Arguments of a transmit request: frame ids, both address widths, every
\* value of TxOptions, and the caller's data ("Testing" among them).
TxFrameIds == {1, 255}
TxAddrs == Addrs \cup {Short(65279)}
TxOptionBits == {0, DISABLE_ACK, 4, TX_OPTIONS_ALL}
MaxTxData == 2
Testing == <<84, 101, 115, 116, 105, 110, 103>>
TxData == SeqsUpTo(CodecBytes, MaxTxData) \cup {Testing}

\* TxRequestIter::new(frame_id, addr, options, data.iter().map(|v| *v)).
tx_request_new(f, a, o, D) ==
    /\ c_op = "none"
    /\ c_op' = "tx_request"
    /\ c_args' = [frame_id |-> f, addr |-> a, options |-> o]
    /\ c_payload' = D
    /\ c_buf' = <<>>
    /\ c_it' = TxRequestIter_new(f, a, o, SliceIter(D))
    /\ UNCHANGED <<c_rem, c_fp, c_res, c_len>>
    /\ UNCHANGED tvars

\* One next() of the request iterator; the byte it yields goes to the buffer
\* (vec.extend(tx_req) of create_tx_request_test).
tx_request_next ==
    /\ c_op = "tx_request"
    /\ LET n == TxRequestIter_next(c_it) IN
       /\ ~n.abort
       /\ c_it' = n.it
       /\ c_buf' = c_buf \o n.item
       /\ c_res' = [tag |-> "next", item |-> n.item]
    /\ UNCHANGED <<c_op, c_payload, c_rem, c_fp, c_len, c_args>>
    /\ UNCHANGED tvars

\* Payload lengths around the two limits of FramePacker::new.
NewLens == {0, 1, 2, 255, 256, U16_MAX - 1, U16_MAX, U16_MAX + 1, U16_MAX + 2}

\* FramePacker::new over a slice of n zero bytes; the packer is not read, so
\* only its fields other than the data are kept.
new_of_length(n) ==
    /\ c_op = "none"
    /\ c_op' = "new"
    /\ c_len' = n
    /\ LET r == FramePacker_new(SliceIter([i \in 1..n |-> 0])) IN
       c_res' = IF r.tag = "Ok"
                  THEN [tag |-> "Ok", state |-> r.state, checksum |-> r.checksum]
                  ELSE r
    /\ UNCHANGED <<c_payload, c_rem, c_buf, c_fp, c_it, c_args>>
    /\ UNCHANGED tvars

\* The byte b with its bit k (0 = least significant) inverted.
FlipBit(b, k) == IF (b \div Pow2(k)) % 2 = 1 THEN b - Pow2(k) ELSE b + Pow2(k)

\* unpack_frame of the finished frame after one bit of the byte at position
\* i (a payload byte or the checksum byte) was inverted on the way.
unpack_flipped(i, k) ==
    /\ c_op = "pack"
    /\ c_fp.tag = "Ok"
    /\ c_fp.state = "Done"
    /\ i \in 4..Len(c_buf)
    /\ c_op' = "pack_flip_unpack"
    /\ c_buf' = [c_buf EXCEPT ![i] = FlipBit(@, k)]
    /\ c_res' = unpack_frame(c_buf', FALSE)
    /\ UNCHANGED <<c_payload, c_rem, c_fp>>
    /\ UNCHANGED <<c_it, c_len, c_args>>
    /\ UNCHANGED tvars

\* A behaviour first chooses the function and its input (while c_op = "none"),
\* then steps what it has built.
\* send_data / send_data_no_ack on an empty transmit queue of the program's
\* size, followed by what the peer does with the queued bytes: unpack_frame,
\* then ApiData::parse of the payload.
TX_QUEUE_SIZE == 512
SendOps == {"send_data", "send_data_no_ack"}
send_then_decode(op, f, a, D) ==
    LET options == IF op = "send_data" THEN 0 ELSE DISABLE_ACK
        tx_request == TxRequestIter_new(f, a, options, SliceIter(D))
        frame == FramePacker_new(tx_request)
        queued == IF frame.tag = "Ok"
                    THEN Take(CollectFrame(frame), TX_QUEUE_SIZE)
                    ELSE <<>>
        unpacked == unpack_frame(queued, FALSE)
    IN /\ c_op = "none"
       /\ c_op' = op
       /\ c_args' = [frame_id |-> f, addr |-> a, options |-> options]
       /\ c_payload' = D
       /\ c_buf' = queued
       /\ c_rem' = <<>>
       /\ c_res' = IF frame.tag # "Ok" THEN Abort       \* expect("packing error")
                   ELSE IF unpacked.tag = "Ok"
                     THEN [tag |-> "Ok", rem |-> unpacked.rem,
                           api |-> parse(unpacked.data)]
                   ELSE unpacked
       /\ UNCHANGED <<c_fp, c_it, c_len>>
       /\ UNCHANGED tvars

CodecNext ==
    \/ /\ c_op = "none"
       /\ \/ \E P \in Payloads : pack_new(P)
          \/ \E B \in Buffers : unpack_buffer(B)
          \/ \E f \in TxFrameIds, a \in TxAddrs, o \in TxOptionBits, D \in TxData :
                tx_request_new(f, a, o, D)
          \/ \E n \in NewLens : new_of_length(n)
          \/ \E D \in IoPayloads : parse_payload(D)
          \/ \E D \in GrammarPayloads \cup TestParsePayloads : parse_payload(D)
          \/ \E D \in StatusPayloads : parse_payload(D)
          \/ \E D \in AtStatusPayloads : parse_payload(D)
          \/ \E op \in SendOps, f \in TxFrameIds, a \in TxAddrs, D \in TxData :
                send_then_decode(op, f, a, D)
    \/ pack_next
    \/ /\ c_op = "pack"
       /\ \/ \E R \in Rems : unpack_packed(R)
          \/ \E i \in 4..Len(c_buf), k \in 0..7 : unpack_flipped(i, k)
    \/ tx_request_next

CodecSpec == Init /\ [][CodecNext]_vars

(* ================================================================== *)
(* Claims                                                              *)
(* ================================================================== *)

\* C1 (CodecSpec): unpacking the bytes the packer produced for a payload P of
\* 1..65535 bytes, followed by any bytes R, returns exactly (P, R).
C1_RoundTrip ==
    (c_op = "pack_unpack" /\ Len(c_payload) >= 1 /\ Len(c_payload) <= U16_MAX)
        => c_res = [tag |-> "Ok", data |-> c_payload, rem |-> c_rem]

\* A frame with a trailing remainder that itself starts like a frame was
\* unpacked, and so was the payload longer than 255 bytes.
C1_Witness ==
    /\ c_op = "pack_unpack"
    /\ c_res.tag = "Ok"
    /\ c_rem # <<>>
    /\ c_rem[1] = START
    /\ Len(c_payload) > 255

InPoll == pc \in {"cond", "send", "read"}

\* C2 (PollSpec): from any queue contents and under any pattern of sampled
\* pin levels, a transmit_and_receive call that has started comes to an end
\* (it returns, or it stops in a panic); it never loops for ever.
C2_PollTerminates == InPoll ~> (pc \in {"idle", "aborted"})

\* A call that ran iterations, sent queued bytes and received, has returned.
C2_Witness ==
    /\ pc = "idle"
    /\ poll_ret = "Ok_true"
    /\ written # <<>>
    /\ tx_queue = <<>>

\* C3 (Spec): in every reachable state rx_queue holds at most its capacity
\* and tx_queue at most its capacity (512 each in the program).
C3_QueuesBounded ==
    /\ Len(rx_queue) <= RX_CAP
    /\ Len(tx_queue) <= TX_CAP

\* Both queues are full, the transmit queue after a send that offered more
\* bytes than there was room for.
C3_Witness ==
    /\ Len(rx_queue) = RX_CAP
    /\ Len(tx_queue) = TX_CAP
    /\ last_op = "send_data"

\* C4 (Spec): unpack_and_parse_buffer (and the unpack_frame it calls) returns
\* a success or a reported error for every buffer, also for one that holds
\* only the first one or two bytes of a frame; it never aborts.
C4_UnpackNeverAborts ==
    last_op = "unpack_and_parse_buffer" => decoded.tag \in {"Ok", "Err"}

\* The indicator of an IO-sample payload d and the bytes that follow it.
IsIoPayload(d) ==
    /\ d # <<>>
    /\ \/ d[1] = 130 /\ Len(d) > 13
       \/ d[1] = 131 /\ Len(d) > 7
IoIndicatorPos(d) == IF d[1] = 130 THEN 13 ELSE 7
IoIndicator(d) == U16At(d, IoIndicatorPos(d)) % (CHANNEL_ALL + 1)
IoTailLen(d) == Len(d) - (IoIndicatorPos(d) + 1)
AnyDigital(ci) == ci % (DIGITAL_ALL + 1) # 0
Bit(ci, flag) == (ci \div flag) % 2 = 1
\* Sample words the indicator selects: one digital word when any digital
\* bit is set, one analog word per analog bit.
SelectedWords(ci) ==
    (IF AnyDigital(ci) THEN 1 ELSE 0)
    + Cardinality({f \in {A0, A1, A2, A3} : Bit(ci, f)})

\* C5 (CodecSpec): parse of an IO-sample payload whose indicator selects
\* sample words that the payload is too short to hold fails with the generic
\* Err(()); it never aborts.  Stated for the indicators whose digital bits
\* are all clear or all set, so that which indicators select a digital word
\* (C6) plays no part.
C5_ShortIoSampleIsErr ==
    (/\ c_op = "parse"
     /\ IsIoPayload(c_buf)
     /\ IoIndicator(c_buf) % (DIGITAL_ALL + 1) \in {0, DIGITAL_ALL}
     /\ IoTailLen(c_buf) < 2 * SelectedWords(IoIndicator(c_buf)))
        => c_res = ParseErr

\* C6 (CodecSpec): in a parsed IO-sample payload digital_samples is present
\* if and only if at least one of the digital bits D0..D8 of the indicator
\* is set.
C6_DigitalIffAnyBit ==
    (c_op = "parse" /\ IsIoPayload(c_buf) /\ c_res.tag = "Ok")
        => ((c_res.digital_samples # <<>>) <=> AnyDigital(IoIndicator(c_buf)))

\* A loop iteration whose exchange went through: the step that leaves "read"
\* without a link error.
ExchangeDone == pc = "read" /\ pc' # "read" /\ poll_ret' # "Err"

\* C7 as stated (Spec): the byte read is appended to rx_queue exactly when
\* the pin was sampled high (attention deasserted) for the iteration.
C7_AppendIffPinHigh ==
    [][ExchangeDone => ((rx_queue' # rx_queue) <=> attn_val)]_vars

\* C7 amended (Spec): the byte read is appended to rx_queue exactly when the
\* pin was sampled low (attention asserted) and rx_queue has room; sampled
\* high the byte is dropped; sampled low with rx_queue full the call aborts.
C7_AppendIffPinLow ==
    [][ExchangeDone =>
          IF attn_val THEN rx_queue' = rx_queue /\ pc' = "cond"
          ELSE IF Len(rx_queue) < RX_CAP
            THEN \E b \in LinkBytes : rx_queue' = Append(rx_queue, b)
            ELSE rx_queue' = rx_queue /\ pc' = "aborted"]_vars

\* Inside one call a byte was appended on a low sample and the next sample
\* was high with a byte still to send, so that a byte is about to be dropped.
C7_Witness ==
    /\ pc = "read"
    /\ attn_val
    /\ val_read
    /\ rx_queue # <<>>

\* The queued byte popped for the exchange in progress and not yet written.
Pending == IF pc = "send" /\ ~tx_is_filler THEN <<tx>> ELSE <<>>

\* C8 (Spec): as long as no exchange has failed, the queued bytes written to
\* the link, followed by the bytes still queued, are the bytes appended to
\* tx_queue in the order they were appended; the filler 0xFF is sent only in
\* an iteration that found tx_queue empty.
C8_TransmitFifo ==
    /\ ~link_failed => written \o Pending \o tx_queue = appended
    /\ (pc \in {"send", "read"} /\ tx_is_filler) => (tx = FILLER /\ tx_queue = <<>>)

\* Bytes of more than one send, a data byte 0xFF among them, have all been
\* written and the call has returned.
C8_Witness ==
    /\ pc = "idle"
    /\ ~link_failed
    /\ tx_queue = <<>>
    /\ Len(written) >= 3
    /\ written[1] = 255
    /\ written = appended

\* A step that is a call of the operation op.
Called(op) == last_op' = op /\ vars' # vars

\* The suffix of B from its first start marker on, nothing without one.
FromFirstStart(B) ==
    IF \E i \in 1..Len(B) : B[i] = START
      THEN LET i == CHOOSE k \in 1..Len(B) :
                        B[k] = START /\ \A j \in 1..(k - 1) : B[j] # START
           IN SubSeq(B, i, Len(B))
      ELSE <<>>

\* C9 (Spec): remove_until_packet leaves the suffix of the buffer that begins
\* at its first 0x7E, or nothing when it holds none, and returns the number
\* of bytes removed; called again at once it removes nothing and returns 0.
C9_DiscardToStart ==
    [][Called("remove_until_packet") =>
          /\ rx_queue' = FromFirstStart(rx_queue)
          /\ last_ret' = Len(rx_queue) - Len(rx_queue')
          /\ last_op = "remove_until_packet" =>
                (rx_queue' = rx_queue /\ last_ret' = 0)]_vars

\* Garbage was removed in front of a marker that has bytes after it.
C9_Witness ==
    /\ last_op = "remove_until_packet"
    /\ last_ret > 0
    /\ Len(rx_queue) > 1
    /\ rx_queue[1] = START

\* C10 (Spec): remove_until_next_packet removes at least one byte of a
\* non-empty buffer, returns the number removed and leaves the buffer empty
\* or beginning with 0x7E, and returns 0 on an empty buffer; so the decode
\* attempt that follows it always gives the caller a result to go on with
\* (a frame, or an error after which to call it again), until the buffer is
\* empty.
C10_AdvancePastFrame ==
    [][/\ Called("remove_until_next_packet") =>
             /\ last_ret' = Len(rx_queue) - Len(rx_queue')
             /\ rx_queue # <<>> => last_ret' >= 1
             /\ rx_queue' = <<>> \/ rx_queue'[1] = START
       /\ (last_op = "remove_until_next_packet" /\ Called("unpack_and_parse_buffer"))
             => decoded'.tag \in {"Ok", "Err"}]_vars

\* The part of C10 about the call alone.
C10_CallAlone ==
    [][Called("remove_until_next_packet") =>
          /\ last_ret' = Len(rx_queue) - Len(rx_queue')
          /\ rx_queue # <<>> => last_ret' >= 1
          /\ rx_queue' = <<>> \/ rx_queue'[1] = START]_vars

\* The sum modulo 256 of the L bytes of B that follow its length field.
RECURSIVE SumAfterLength(_, _)
SumAfterLength(B, L) == IF L = 0 THEN 0 ELSE (B[3 + L] + SumAfterLength(B, L - 1)) % 256

\* The 16-bit big-endian length field of a buffer of at least 3 bytes.
LengthField(B) == B[2] * 256 + B[3]

\* C11 (CodecSpec): for a buffer of at least 3 bytes unpack_frame decides in
\* this order: NoStart when the first byte is not 0x7E; BadLength(L+4) when
\* fewer than L+1 bytes follow the length field L; BadChecksum(s), s the
\* wrapping sum of the L payload bytes, unless checksum byte + s = 0xFF
\* modulo 256; success otherwise.  The empty buffer gives NoStart.
C11_UnpackDecisionOrder ==
    (c_op = "unpack_frame" /\ (c_buf = <<>> \/ Len(c_buf) >= 3)) =>
        IF c_buf = <<>> THEN c_res.tag = "Err" /\ c_res.err = "NoStart"
        ELSE IF c_buf[1] # START THEN c_res.tag = "Err" /\ c_res.err = "NoStart"
        ELSE LET L == LengthField(c_buf)
                 s == SumAfterLength(c_buf, Min(L, Len(c_buf) - 3))
             IN IF Len(c_buf) - 3 < L + 1
                  THEN c_res = [tag |-> "Err", err |-> "BadLength", val |-> L + 4]
                ELSE IF (c_buf[4 + L] + s) % 256 # 255
                  THEN c_res = [tag |-> "Err", err |-> "BadChecksum", val |-> s]
                ELSE c_res.tag = "Ok"

\* A buffer with a start marker and a complete body of one payload byte whose
\* checksum does not match was refused with the sum of its payload.
C11_Witness ==
    /\ c_op = "unpack_frame"
    /\ Len(c_buf) >= 5
    /\ c_buf[1] = START
    /\ LengthField(c_buf) = 1
    /\ c_res.tag = "Err"
    /\ c_res.err = "BadChecksum"
    /\ c_res.val = 1

\* C12 (CodecSpec): a frame the packer produced, with any single bit of any
\* payload byte or of the checksum byte inverted and the start marker and
\* the length field left alone, is refused by unpack_frame with BadChecksum.
C12_BitFlipIsBadChecksum ==
    c_op = "pack_flip_unpack" => (c_res.tag = "Err" /\ c_res.err = "BadChecksum")

\* The top bit of a payload byte of the frame longer than 255 bytes was
\* inverted, the checksum byte arriving as it was sent.
C12_Witness ==
    /\ c_op = "pack_flip_unpack"
    /\ Len(c_payload) > 255
    /\ c_buf[Len(c_buf)] = 255 - WrappingSum(c_payload)
    /\ \E i \in 1..Len(c_payload) : c_buf[3 + i] = FlipBit(c_payload[i], 7)

\* The frame of a payload P: marker, length high, length low, P, checksum.
\* The sum modulo 256 of P[lo..hi], halving the range.
RECURSIVE SumRange(_, _, _)
SumRange(P, lo, hi) ==
    IF lo > hi THEN 0
    ELSE IF lo = hi THEN P[lo] % 256
    ELSE LET mid == (lo + hi) \div 2
         IN (SumRange(P, lo, mid) + SumRange(P, mid + 1, hi)) % 256

FrameOf(P) ==
    <<START, Len(P) \div 256, Len(P) % 256>> \o P \o <<255 - SumRange(P, 1, Len(P))>>

\* Position of a packer state in the order Start, LenH, LenL, Data, Done.
StateRank(st) ==
    CASE st = "Start" -> 0 [] st = "LenH" -> 1 [] st = "LenL" -> 2
      [] st = "Data" -> 3 [] st = "Done" -> 4

Packing == c_op = "pack" /\ c_fp.tag = "Ok"

\* C13 (CodecSpec): the bytes a FramePacker over a payload of n bytes has
\* yielded after any number of next() calls are a prefix of 0x7E, n's high
\* byte, n's low byte, the payload, 0xFF minus the wrapping sum of the
\* payload, n+4 bytes when it is done; its state is the one that belongs to
\* the number of bytes yielded and only moves forward; every next() in state
\* Done returns None.
C13_PackerSequence ==
    /\ [](Packing =>
            /\ Len(c_buf) <= Len(c_payload) + 4
            /\ c_buf = Take(FrameOf(c_payload), Len(c_buf))
            /\ c_fp.state = (CASE Len(c_buf) = 0 -> "Start"
                               [] Len(c_buf) = 1 -> "LenH"
                               [] Len(c_buf) = 2 -> "LenL"
                               [] Len(c_buf) = Len(c_payload) + 4 -> "Done"
                               [] OTHER -> "Data"))
    /\ [][(Packing /\ c_op' = "pack") =>
            /\ StateRank(c_fp'.state) >= StateRank(c_fp.state)
            /\ c_fp.state # "Done" => Len(c_buf') = Len(c_buf) + 1
            /\ c_fp.state = "Done" =>
                  (c_res'.item = <<>> /\ c_buf' = c_buf /\ c_fp' = c_fp)]_vars

\* The frame of packing_test is complete (length 0x0012, checksum 0xF5) and
\* a further next() has returned None.
C13_Witness ==
    /\ Packing
    /\ c_payload = TestPayload
    /\ c_fp.state = "Done"
    /\ Len(c_buf) = 22
    /\ c_buf[2] = 0 /\ c_buf[3] = 18
    /\ c_buf[22] = 245
    /\ c_res = [tag |-> "next", item |-> <<>>]

\* C14 (CodecSpec): FramePacker::new fails with TooShort for a payload of
\* length 0, fails with TooLong for a length of 65536 or more, and succeeds
\* for every length from 1 to 65535.
C14_LengthGuard ==
    c_op = "new" =>
        /\ c_len = 0 => c_res = [tag |-> "Err", err |-> "TooShort"]
        /\ c_len >= 65536 => c_res = [tag |-> "Err", err |-> "TooLong"]
        /\ (1 <= c_len /\ c_len <= 65535) =>
              c_res = [tag |-> "Ok", state |-> "Start", checksum |-> 0]

\* A packer was built over exactly 65535 bytes.
C14_Witness ==
    /\ c_op = "new"
    /\ c_len = 65535
    /\ c_res.tag = "Ok"

\* The content of a transmit request for the arguments args and the data D:
\* type code, frame id, address most significant byte first, options, D.
TxContentOf(args, D) ==
    (IF args.addr.width = "Long"
       THEN <<0, args.frame_id>> \o args.addr.bytes
       ELSE <<1, args.frame_id, args.addr.value \div 256, args.addr.value % 256>>)
    \o <<args.options>> \o D

\* C15 (CodecSpec): the bytes a TxRequestIter has yielded after any number of
\* next() calls are a prefix of: 0x00 (64-bit address) or 0x01 (16-bit
\* address), frame_id, the 8 or 2 address bytes most significant first, the
\* options byte, the caller's data; each next() before the end yields the
\* next byte of it, and next() returns None only after all of it.
C15_TxRequestContent ==
    /\ [](c_op = "tx_request" =>
            /\ Len(c_buf) <= Len(TxContentOf(c_args, c_payload))
            /\ c_buf = Take(TxContentOf(c_args, c_payload), Len(c_buf))
            /\ (c_res # NoResult /\ c_res.item = <<>>) =>
                  c_buf = TxContentOf(c_args, c_payload))
    /\ [][(c_op = "tx_request" /\ c_op' = "tx_request"
            /\ c_buf # TxContentOf(c_args, c_payload)) =>
               Len(c_buf') = Len(c_buf) + 1]_vars

\* The request of create_tx_request_test was read to its end: 18 bytes for
\* frame id 1, the long address, no options and "Testing", then None.
C15_Witness ==
    /\ c_op = "tx_request"
    /\ c_args = [frame_id |-> 1, addr |-> Long(<<0, 19, 162, 0, 65, 93, 29, 187>>),
                 options |-> 0]
    /\ c_payload = Testing
    /\ c_buf = TestPayload
    /\ c_res = [tag |-> "next", item |-> <<>>]

\* C16 (CodecSpec): before the first next() and after any number of next()
\* calls, for both address widths, len() and size_hint() of a TxRequestIter
\* are the number of bytes next() will still yield; right after construction
\* that is 11 + data length for a long and 5 + data length for a short
\* address.
C16_ExactLength ==
    c_op = "tx_request" =>
        LET left == Len(TxContentOf(c_args, c_payload)) - Len(c_buf) IN
        /\ TxRequestIter_len(c_it) = left
        /\ TxRequestIter_size_hint(c_it) = <<left, <<left>>>>
        /\ c_buf = <<>> =>
              left = (IF c_args.addr.width = "Long" THEN 11 ELSE 5) + Len(c_payload)

\* A request with a short address and data is in the middle of its address.
C16_Witness ==
    /\ c_op = "tx_request"
    /\ c_args.addr.width = "Short"
    /\ c_it.state = "Addr"
    /\ c_it.addr_shift = 0
    /\ Len(c_buf) = 3
    /\ Len(c_payload) = 2
    /\ TxRequestIter_len(c_it) = 4

\* The grammar table: the kind a type byte t names for a payload of len
\* bytes, "none" where the table has no row for them.
GrammarKind(t, len) ==
    CASE t = 0 /\ len > 10 -> "TxRequest64Addr"
      [] t = 1 /\ len > 4 -> "TxRequest16Addr"
      [] t = 8 /\ len > 3 -> "AtCommand"
      [] t = 9 /\ len > 3 -> "AtCommandQueueParam"
      [] t = 23 /\ len > 13 -> "RemoteAtCommand"
      [] t = 128 /\ len > 10 -> "RxPacket64Addr"
      [] t = 129 /\ len > 4 -> "RxPacket16Addr"
      [] t = 136 /\ len > 4 -> "AtCommandResponse"
      [] t = 137 /\ len = 3 -> "TxStatus"
      [] t = 138 /\ len = 2 -> "ModemStatus"
      [] t = 151 /\ len > 14 -> "RemoteAtCommandResponse"
      [] OTHER -> "none"

\* A parse of a non-empty payload that is not of an IO-sample type.
ParsedPlain == c_op = "parse" /\ c_buf # <<>> /\ c_buf[1] \notin {130, 131}

\* C17 (CodecSpec): for a non-empty payload whose type is not an IO-sample
\* type, parse succeeds exactly when the type byte and the payload length
\* are in the grammar table, and then returns the kind the table names;
\* every other type byte or length gives the one failure Err(()).
C17_GrammarTable ==
    ParsedPlain =>
        LET kind == GrammarKind(c_buf[1], Len(c_buf)) IN
        IF kind # "none" THEN c_res.tag = "Ok" /\ c_res.kind = kind
        ELSE c_res = ParseErr

\* A transmit status of four bytes, one more than the table allows, failed.
C17_Witness ==
    /\ ParsedPlain
    /\ c_buf[1] = 137
    /\ Len(c_buf) = 4
    /\ c_res = ParseErr

\* The bytes of d after its first k.
Rest(d, k) == SubSeq(d, k + 1, Len(d))

\* The big-endian 16-bit value of the bytes hi, lo.
BigEndian16(hi, lo) == hi * 256 + lo

\* The flags of a transmit options byte (bits 0 and 2) and of a receive
\* options byte (bits 1 and 2) as the value of the flag set.
TxFlagsOf(b) == (b % 2) + 4 * ((b \div 4) % 2)
RxFlagsOf(b) == 2 * ((b \div 2) % 2) + 4 * ((b \div 4) % 2)

\* C18 (CodecSpec): in every successfully parsed kind that carries trailing
\* data the fixed fields are the payload bytes after the type byte in table
\* order, 16-bit addresses decoded big-endian and 64-bit addresses most
\* significant byte first, option bytes taken as their flags, and the
\* trailing data or params is exactly the rest of the payload, empty when
\* the payload ends with the fixed fields.
C18_FieldsAndSuffix ==
    (ParsedPlain /\ c_res.tag = "Ok") =>
        LET d == c_buf
            r == c_res
        IN
        CASE r.kind = "TxRequest64Addr" ->
               /\ r.frame_id = d[2]
               /\ r.dest_addr = SubSeq(d, 3, 10)
               /\ r.options = TxFlagsOf(d[11])
               /\ r.data = Rest(d, 11)
          [] r.kind = "TxRequest16Addr" ->
               /\ r.frame_id = d[2]
               /\ r.dest_addr = BigEndian16(d[3], d[4])
               /\ r.options = TxFlagsOf(d[5])
               /\ r.data = Rest(d, 5)
          [] r.kind \in {"AtCommand", "AtCommandQueueParam"} ->
               /\ r.frame_id = d[2]
               /\ r.at_cmd = <<d[3], d[4]>>
               /\ r.params = Rest(d, 4)
          [] r.kind = "RemoteAtCommand" ->
               /\ r.frame_id = d[2]
               /\ r.dest_addr_64 = SubSeq(d, 3, 10)
               /\ r.dest_addr_16 = BigEndian16(d[11], d[12])
               /\ r.at_cmd = <<d[13], d[14]>>
               /\ r.params = Rest(d, 14)
          [] r.kind = "RxPacket64Addr" ->
               /\ r.source_addr = SubSeq(d, 2, 9)
               /\ r.rssi = d[10]
               /\ r.options = RxFlagsOf(d[11])
               /\ r.data = Rest(d, 11)
          [] r.kind = "RxPacket16Addr" ->
               /\ r.source_addr = BigEndian16(d[2], d[3])
               /\ r.rssi = d[4]
               /\ r.options = RxFlagsOf(d[5])
               /\ r.data = Rest(d, 5)
          [] r.kind = "AtCommandResponse" ->
               /\ r.frame_id = d[2]
               /\ r.at_cmd = <<d[3], d[4]>>
               /\ r.data = Rest(d, 5)
          [] r.kind = "RemoteAtCommandResponse" ->
               /\ r.frame_id = d[2]
               /\ r.source_addr_64 = SubSeq(d, 3, 10)
               /\ r.source_addr_16 = BigEndian16(d[11], d[12])
               /\ r.at_cmd = <<d[13], d[14]>>
               /\ r.data = Rest(d, 15)
          [] OTHER -> TRUE

\* The AT command NH of the parse test: frame id 0x52, command "NH", no
\* params.
C18_Witness ==
    /\ ParsedPlain
    /\ c_buf = <<8, 82, 78, 72>>
    /\ c_res = [tag |-> "Ok", kind |-> "AtCommand", frame_id |-> 82,
                at_cmd |-> <<78, 72>>, params |-> <<>>]

AnalogFlags == <<A0, A1, A2, A3>>

\* How many analog words come before the one of analog channel i.
AnalogWordsBefore(ci, i) == Cardinality({j \in 1..(i - 1) : Bit(ci, AnalogFlags[j])})

\* The analog samples of an IO-sample payload d without a digital word: one
\* big-endian word per set analog bit, taken in the order A0, A1, A2, A3
\* from the bytes after the indicator; nothing for a clear bit.
AnalogOf(d) ==
    LET ci == IoIndicator(d)
        first == IoIndicatorPos(d) + 2
    IN [i \in 1..4 |->
          IF Bit(ci, AnalogFlags[i])
            THEN LET at == first + 2 * AnalogWordsBefore(ci, i)
                 IN <<BigEndian16(d[at], d[at + 1])>>
            ELSE <<>>]

\* C19 (CodecSpec): for an IO-sample payload whose indicator has no digital
\* bit set and which holds the bytes of every selected field, parse succeeds,
\* analog_samples[i] is present exactly when indicator bit Ai is set, the
\* present values are the successive big-endian 16-bit words after the
\* indicator in the order A0, A1, A2, A3, and a field whose bit is clear is
\* None, not zero.
C19_AnalogSamples ==
    (/\ c_op = "parse"
     /\ IsIoPayload(c_buf)
     /\ ~AnyDigital(IoIndicator(c_buf))
     /\ IoTailLen(c_buf) >= 2 * SelectedWords(IoIndicator(c_buf)))
        => /\ c_res.tag = "Ok"
           /\ c_res.analog_samples = AnalogOf(c_buf)
           /\ c_res.digital_samples = <<>>

\* A0 and A2 are selected and A1, A3 are not: the two words after the
\* indicator went to analog_samples[0] and [2].
C19_Witness ==
    /\ c_op = "parse"
    /\ IsIoPayload(c_buf)
    /\ IoIndicator(c_buf) = A0 + A2
    /\ IoTailLen(c_buf) >= 4
    /\ c_res.tag = "Ok"
    /\ c_res.analog_samples[1] # <<>>
    /\ c_res.analog_samples[2] = <<>>
    /\ c_res.analog_samples[3] # <<>>
    /\ c_res.analog_samples[3] # c_res.analog_samples[1]
    /\ c_res.analog_samples[4] = <<>>

\* The two enumerations: status byte and name.
TxStatusCodes ==
    {<<0, "Standard">>, <<1, "NoAck">>, <<2, "CcaFailure">>, <<3, "TxPurged">>,
     <<33, "NetworkAckFailure">>, <<34, "NotConnected">>, <<49, "InternalError">>,
     <<50, "ResourceDepletion">>, <<116, "PayloadTooLarge">>}

ModemStatusCodes ==
    {<<0, "HardwareReset">>, <<1, "WatchdogReset">>, <<2, "AssociatedCoordinator">>,
     <<3, "DissociatedCoordinator">>, <<6, "CoordinatorNewNetwork">>,
     <<13, "InputVoltageTooHigh">>}

\* The name a status byte has in an enumeration, Unknown when it has none.
StatusName(codes, st) ==
    IF \E c \in codes : c[1] = st
      THEN (CHOOSE c \in codes : c[1] = st)[2]
      ELSE "Unknown"

\* C20 (CodecSpec): for every value 0..255 of the status byte, parse of
\* [0x8A, s] succeeds with a ModemStatus and parse of [0x89, f, s] succeeds
\* with a TxStatus; a byte of the enumeration gives its named status, every
\* other byte gives Unknown, and no value makes parse fail.
C20_StatusNeverFails ==
    c_op = "parse" =>
        /\ (Len(c_buf) = 2 /\ c_buf[1] = 138) =>
              c_res = [tag |-> "Ok", kind |-> "ModemStatus",
                       status |-> StatusName(ModemStatusCodes, c_buf[2])]
        /\ (Len(c_buf) = 3 /\ c_buf[1] = 137) =>
              c_res = [tag |-> "Ok", kind |-> "TxStatus", frame_id |-> c_buf[2],
                       status |-> StatusName(TxStatusCodes, c_buf[3])]

\* The modem status byte 0xFF, which the enumeration does not hold, was
\* decoded to Unknown.
C20_Witness ==
    /\ c_op = "parse"
    /\ c_buf = <<138, 255>>
    /\ c_res = [tag |-> "Ok", kind |-> "ModemStatus", status |-> "Unknown"]

\* A step in which transmit_and_receive returns Ok.
PollReturnsOk == InPoll /\ pc' = "idle" /\ poll_ret' # "Err"

\* C21 (Spec): transmit_and_receive returns Ok(true) exactly when a byte was
\* appended to rx_queue during the call, Ok(false) when none was.  The call
\* starts with nothing recorded, every step of it records in val_read whether
\* rx_queue has grown since the call began, and the value returned is that
\* record.
C21_ReturnsWhetherReceived ==
    [][/\ (pc = "idle" /\ pc' = "cond") => ~val_read'
       /\ InPoll => (val_read' <=> (val_read \/ rx_queue' # rx_queue))
       /\ InPoll => (rx_queue' = rx_queue \/ Len(rx_queue') = Len(rx_queue) + 1)
       /\ PollReturnsOk => /\ poll_ret' \in {"Ok_true", "Ok_false"}
                           /\ poll_ret' = "Ok_true" <=> val_read']_vars

\* A call that wrote queued bytes and dropped what it read has returned
\* Ok(false) with rx_queue still empty.
C21_Witness ==
    /\ pc = "idle"
    /\ last_op = "transmit_and_receive"
    /\ poll_ret = "Ok_false"
    /\ Len(written) >= 2
    /\ rx_queue = <<>>

\* C22 (Spec): when transmit_and_receive has just returned Ok, rx_queue is
\* full, or tx_queue is empty and the last sample of the pin taken by the
\* call was high.
C22_ReturnCondition ==
    (pc = "idle" /\ last_op = "transmit_and_receive"
     /\ poll_ret \in {"Ok_true", "Ok_false"})
        => \/ Len(rx_queue) = RX_CAP
           \/ (tx_queue = <<>> /\ attn_val)

\* The call returned because rx_queue became full, with bytes still queued
\* for sending and the pin low.
C22_Witness ==
    /\ pc = "idle"
    /\ last_op = "transmit_and_receive"
    /\ poll_ret = "Ok_true"
    /\ Len(rx_queue) = RX_CAP
    /\ tx_queue # <<>>
    /\ ~attn_val

\* The bytes of the frame that send_data (options 0) or send_data_no_ack
\* (DISABLE_ACK) offers to tx_queue.
FrameBytes(f, a, o, d) ==
    CollectFrame(FramePacker_new(TxRequestIter_new(f, a, o, SliceIter(d))))

\* The byte strings a call of the send operation op can have been given.
CallBytes(op) ==
    CASE op = "send_data_raw" -> RawData
      [] op = "send_data" ->
           {FrameBytes(f, a, 0, d) : f \in FrameIds, a \in Addrs, d \in UserData}
      [] op = "send_data_no_ack" ->
           {FrameBytes(f, a, DISABLE_ACK, d) : f \in FrameIds, a \in Addrs, d \in UserData}

\* C23 (Spec): a send call given more bytes than tx_queue has room for
\* aborts; a send call that returns leaves tx_queue as its previous contents
\* followed by all the bytes of the call, never by a prefix of them.
C23_SendAllOrAbort ==
    [][\A op \in {"send_data_raw", "send_data", "send_data_no_ack"} :
          Called(op) =>
             \/ pc' = "aborted"
             \/ \E b \in CallBytes(op) : tx_queue' = tx_queue \o b]_vars

\* C25 (CodecSpec): every payload that unpack_frame returns has between 1
\* and 65535 bytes; a frame that declares length 0 (7E 00 00 FF) is refused
\* with an unpack error, so that parse is never given an empty payload.
C25_PayloadNeverEmpty ==
    (c_op = "unpack_frame" /\ c_res.tag = "Ok")
        => (Len(c_res.data) >= 1 /\ Len(c_res.data) <= U16_MAX)

\* C26 (Spec): a transmit_and_receive call made while rx_queue is at its
\* capacity returns without trying to append and without aborting, whatever
\* the pin shows and whatever tx_queue holds.  A call still running with
\* rx_queue full is one that began with it full, since a call that fills
\* rx_queue returns in the same step.
C26_FullBufferNoAbort ==
    [][(InPoll /\ Len(rx_queue) = RX_CAP) => pc' # "aborted"]_vars

\* A step in which an exchange of transmit_and_receive answers with a link
\* error other than would-block.
LinkErrorStep == InPoll /\ pc \in {"send", "read"} /\ poll_ret' = "Err"

\* C28 (Spec): when an exchange reports a link error, transmit_and_receive
\* returns that error at once, appends nothing to rx_queue for the exchange,
\* and tx_queue still holds every byte that was not sent: after a failed
\* send of a queued byte that byte is again at the front of tx_queue.
C28_LinkErrorKeepsBytes ==
    [][LinkErrorStep =>
          /\ pc' = "idle"
          /\ rx_queue' = rx_queue
          /\ IF pc = "send" /\ ~tx_is_filler
               THEN tx_queue' = <<tx>> \o tx_queue
               ELSE tx_queue' = tx_queue]_vars

\* C27 (ReceiverSpec): after unpack_and_parse_buffer has succeeded on a
\* buffer whose first frame declares length L and is followed by nothing or
\* by a further frame, one call of remove_until_next_packet removes exactly
\* the L+4 bytes of that frame and returns L+4, so that the buffer then
\* begins with the remainder unpack_frame reported, also when the payload
\* holds the byte 0x7E.
C27_RemovesConsumedFrame ==
    [][(/\ last_op = "unpack_and_parse_buffer"
        /\ decoded.tag = "Ok"
        /\ Called("remove_until_next_packet")
        /\ LET rem == Rest(rx_queue, LengthField(rx_queue) + 4)
           IN rem = <<>> \/ rem[1] = START)
          => /\ last_ret' = LengthField(rx_queue) + 4
             /\ rx_queue' = Rest(rx_queue, LengthField(rx_queue) + 4)]_vars

\* C29 (CodecSpec): the status of a parsed AtCommandResponse (0x88) carrying
\* the status byte s is the status of the parsed RemoteAtCommandResponse
\* (0x97) carrying the same s, and the other way round; s = 4 is NoResponse
\* in both.
AtStatusByte ==
    IF c_res.kind = "AtCommandResponse" THEN c_buf[5] ELSE c_buf[15]
C29_SameAtStatus ==
    (/\ c_op = "parse"
     /\ c_res.tag = "Ok"
     /\ c_res.kind \in {"AtCommandResponse", "RemoteAtCommandResponse"})
        => /\ c_res.status = parse(AtLocalPayload(AtStatusByte)).status
           /\ c_res.status = parse(AtRemotePayload(AtStatusByte)).status
           /\ AtStatusByte = 4 => c_res.status = "NoResponse"

\* C30 (CodecSpec): the bytes send_data queues for a frame id, an address
\* and data form one frame that unpack_frame accepts with an empty
\* remainder, and its payload parses to the TxData request of the address's
\* width with the same frame id, address and data and with empty options;
\* send_data_no_ack gives the same with options DISABLE_ACK alone.
TxRequestOf(op, args, data) ==
    [tag |-> "Ok",
     kind |-> IF args.addr.width = "Long" THEN "TxRequest64Addr"
              ELSE "TxRequest16Addr",
     frame_id |-> args.frame_id,
     dest_addr |-> IF args.addr.width = "Long" THEN args.addr.bytes
                   ELSE args.addr.value,
     options |-> IF op = "send_data" THEN 0 ELSE DISABLE_ACK,
     data |-> data]
C30_SendDecodes ==
    c_op \in SendOps
        => c_res = [tag |-> "Ok", rem |-> <<>>,
                    api |-> TxRequestOf(c_op, c_args, c_payload)]

\* send_data_no_ack to a long address, with data that holds the start
\* delimiter, was queued and decoded.
C30_Witness ==
    /\ c_op = "send_data_no_ack"
    /\ c_res.tag = "Ok"
    /\ c_res.api.tag = "Ok"
    /\ c_res.api.kind = "TxRequest64Addr"
    /\ c_res.api.options = DISABLE_ACK
    /\ c_payload = <<START, 255>>

====
